---- MODULE Spec2Model ----
(***************************************************************************)
(* Score extraction and multi-phase evaluation orchestration of the       *)
(* document-evaluation server.                                            *)
(*                                                                         *)
(* A provider response is a string.  It is modelled as a sequence of      *)
(* lexical tokens: the regular expressions and JSON.parse of the source   *)
(* are computed over the token sequence, token adjacency being string     *)
(* concatenation (no white space is implied between two tokens).          *)
(***************************************************************************)
EXTENDS Integers, Sequences, FiniteSets, TLC

(***************************************************************************)
(* Bounds of the model.                                                    *)
(***************************************************************************)
\* a provider response is the concatenation of at most MaxPieces pieces
MaxPieces == 3
\* the providers stream at most MaxChunks chunks during one analysis
MaxChunks == 3

(***************************************************************************)
(* Tokens.  k is the lexical class, n the value of a digit run             *)
(* (parseInt of the run) and 0 for every other class.                      *)
(*   "OVERALL"                 the word overall, in any letter case        *)
(*   "score" "Score" "SCORE"   the word score in that letter case          *)
(*   "explanation"             the word explanation                        *)
(*   "w"                       any other run of non-space characters       *)
(*   "ws"                      a run of white space (\s+)                  *)
(*   "num"                     a maximal run of decimal digits (\d+)       *)
(*   ":" "-" "," "{" "}" "[" "]" "q"   punctuation, q the double quote     *)
(*   "fenceJson" "fence"       the code fence markers ```json and ```      *)
(*   "msg..."                  a fixed message of the source               *)
(***************************************************************************)
T(k) == [k |-> k, n |-> 0]
Num(n) == [k |-> "num", n |-> n]

IsWs(tok) == tok.k = "ws"
IsNum(tok) == tok.k = "num"
\* /score/i
IsScoreWord(tok) == tok.k \in {"score", "Score", "SCORE"}
\* /overall/i
IsOverallWord(tok) == tok.k = "OVERALL"
\* [:\s]
IsColonOrWs(tok) == tok.k \in {":", "ws"}

RECURSIVE Concat(_)
Concat(ss) == IF ss = <<>> THEN <<>> ELSE Head(ss) \o Concat(Tail(ss))

(***************************************************************************)
(* String helpers of the JavaScript runtime.                               *)
(***************************************************************************)
RECURSIVE TrimStart(_)
TrimStart(s) == IF s # <<>> /\ IsWs(Head(s)) THEN TrimStart(Tail(s)) ELSE s

RECURSIVE TrimEnd(_)
TrimEnd(s) ==
  IF s # <<>> /\ IsWs(s[Len(s)]) THEN TrimEnd(SubSeq(s, 1, Len(s) - 1)) ELSE s

\* String.prototype.trim
Trim(s) == TrimEnd(TrimStart(s))

\* the index of the first token at or after i that is not white space (\s*)
RECURSIVE SkipWs(_, _)
SkipWs(s, i) == IF i <= Len(s) /\ IsWs(s[i]) THEN SkipWs(s, i + 1) ELSE i

\* the index of the first token at or after i that is neither ':' nor white space
RECURSIVE SkipColonWs(_, _)
SkipColonWs(s, i) ==
  IF i <= Len(s) /\ IsColonOrWs(s[i]) THEN SkipColonWs(s, i + 1) ELSE i

\* String.prototype.indexOf / lastIndexOf of a one-token string; 0 is "not found"
IndexOf(s, k) ==
  IF \E i \in 1..Len(s) : s[i].k = k
  THEN CHOOSE i \in 1..Len(s) : s[i].k = k /\ \A j \in 1..(i - 1) : s[j].k # k
  ELSE 0

LastIndexOf(s, k) ==
  IF \E i \in 1..Len(s) : s[i].k = k
  THEN CHOOSE i \in 1..Len(s) : s[i].k = k /\ \A j \in (i + 1)..Len(s) : s[j].k # k
  ELSE 0

(***************************************************************************)
(* JavaScript values, as far as the adapters use them: a number, NaN, a    *)
(* string or undefined.                                                    *)
(***************************************************************************)
Undef == [t |-> "undef", n |-> 0, s |-> <<>>]
NaNV == [t |-> "nan", n |-> 0, s |-> <<>>]
NumV(n) == [t |-> "num", n |-> n, s |-> <<>>]
StrV(s) == [t |-> "str", n |-> 0, s |-> s]

\* ToBoolean
Truthy(v) == (v.t = "num" /\ v.n # 0) \/ (v.t = "str" /\ v.s # <<>>)
\* a || b
JsOr(a, b) == IF Truthy(a) THEN a ELSE b
\* ToNumber
ToNumber(v) ==
  CASE v.t = "num" -> v
    [] v.t = "str" ->
         IF Trim(v.s) = <<>> THEN NumV(0)
         ELSE IF Len(Trim(v.s)) = 1 /\ IsNum(Trim(v.s)[1]) THEN NumV(Trim(v.s)[1].n)
         ELSE IF Len(Trim(v.s)) = 2 /\ Trim(v.s)[1].k = "-" /\ IsNum(Trim(v.s)[2])
              THEN NumV(0 - Trim(v.s)[2].n)
         ELSE NaNV
    [] OTHER -> NaNV
\* Math.min(a, b) and Math.max(a, b)
MathMin(a, b) ==
  IF ToNumber(a).t = "nan" \/ ToNumber(b).t = "nan" THEN NaNV
  ELSE IF ToNumber(a).n <= ToNumber(b).n THEN ToNumber(a) ELSE ToNumber(b)
MathMax(a, b) ==
  IF ToNumber(a).t = "nan" \/ ToNumber(b).t = "nan" THEN NaNV
  ELSE IF ToNumber(a).n >= ToNumber(b).n THEN ToNumber(a) ELSE ToNumber(b)

(***************************************************************************)
(* JSON.parse over tokens.  The grammar covered: an object or an array of  *)
(* scalars, or a scalar; a scalar is an integer (digits, optional minus)   *)
(* or a string (no escapes).  White space between JSON tokens is allowed.  *)
(* The result keeps what the adapters read: the properties score, Score,   *)
(* SCORE and explanation (undefined on an array or a primitive).           *)
(***************************************************************************)
JsonFail == [ok |-> FALSE, kind |-> "fail", score |-> Undef, Score |-> Undef,
             SCORE |-> Undef, explanation |-> Undef]
JsonValue(kind) == [ok |-> TRUE, kind |-> kind, score |-> Undef, Score |-> Undef,
                    SCORE |-> Undef, explanation |-> Undef]

\* white space outside of string literals is insignificant
RECURSIVE StripWs(_, _)
StripWs(s, inStr) ==
  IF s = <<>> THEN <<>>
  ELSE IF Head(s).k = "q" THEN <<Head(s)>> \o StripWs(Tail(s), ~inStr)
  ELSE IF IsWs(Head(s)) /\ ~inStr THEN StripWs(Tail(s), inStr)
  ELSE <<Head(s)>> \o StripWs(Tail(s), inStr)

\* the index of the first double quote at or after i, Len(s)+1 if none
RECURSIVE NextQuote(_, _)
NextQuote(s, i) == IF i <= Len(s) /\ s[i].k # "q" THEN NextQuote(s, i + 1) ELSE i

\* a scalar starting at s[i]: [ok, v, next]
ParseScalar(s, i) ==
  IF i > Len(s) THEN [ok |-> FALSE, v |-> Undef, next |-> i]
  ELSE IF IsNum(s[i]) THEN [ok |-> TRUE, v |-> NumV(s[i].n), next |-> i + 1]
  ELSE IF s[i].k = "-" /\ i + 1 <= Len(s) /\ IsNum(s[i + 1])
       THEN [ok |-> TRUE, v |-> NumV(0 - s[i + 1].n), next |-> i + 2]
  ELSE IF s[i].k = "q" /\ NextQuote(s, i + 1) <= Len(s)
       THEN [ok |-> TRUE, v |-> StrV(SubSeq(s, i + 1, NextQuote(s, i + 1) - 1)),
             next |-> NextQuote(s, i + 1) + 1]
  ELSE [ok |-> FALSE, v |-> Undef, next |-> i]

\* the property a key string names, "other" when the adapters never read it
KeyName(str) ==
  IF Len(str) = 1 /\ str[1].k \in {"score", "Score", "SCORE", "explanation"}
  THEN str[1].k ELSE "other"

\* the members of an object from s[i] on, acc the properties read so far
RECURSIVE ParseMembers(_, _, _)
ParseMembers(s, i, acc) ==
  LET key == ParseScalar(s, i)
      val == ParseScalar(s, key.next + 1)
      obj == IF KeyName(key.v.s) = "other" THEN acc
             ELSE [acc EXCEPT ![KeyName(key.v.s)] = val.v]
  IN IF ~(key.ok /\ key.v.t = "str") THEN JsonFail
     ELSE IF ~(key.next <= Len(s) /\ s[key.next].k = ":") THEN JsonFail
     ELSE IF ~val.ok \/ val.next > Len(s) THEN JsonFail
     ELSE IF s[val.next].k = "," THEN ParseMembers(s, val.next + 1, obj)
     ELSE IF s[val.next].k = "}" /\ val.next = Len(s) THEN obj
     ELSE JsonFail

\* the elements of an array from s[i] on
RECURSIVE ParseElements(_, _)
ParseElements(s, i) ==
  LET val == ParseScalar(s, i)
  IN IF ~val.ok \/ val.next > Len(s) THEN JsonFail
     ELSE IF s[val.next].k = "," THEN ParseElements(s, val.next + 1)
     ELSE IF s[val.next].k = "]" /\ val.next = Len(s) THEN JsonValue("array")
     ELSE JsonFail

\* JSON.parse(text); ok = FALSE is the SyntaxError it throws
JSONparse(text) ==
  LET s == StripWs(text, FALSE)
  IN IF s = <<>> THEN JsonFail
     ELSE IF s[1].k = "{"
          THEN IF Len(s) = 2 /\ s[2].k = "}" THEN JsonValue("object")
               ELSE ParseMembers(s, 2, JsonValue("object"))
     ELSE IF s[1].k = "["
          THEN IF Len(s) = 2 /\ s[2].k = "]" THEN JsonValue("array")
               ELSE ParseElements(s, 2)
     ELSE IF ParseScalar(s, 1).ok /\ ParseScalar(s, 1).next = Len(s) + 1
          THEN JsonValue("scalar")
     ELSE JsonFail

Min(S) == CHOOSE x \in S : \A y \in S : x <= y
Max(S) == CHOOSE x \in S : \A y \in S : x >= y

(***************************************************************************)
(* Program constants.                                                      *)
(***************************************************************************)
\* extractScore: "If no score found, return 70 as conservative fallback"
ExtractFallback == 70
\* deriveScoreFromAnswer: "Return neutral score to prevent contradictions"
DeriveFallback == 70
\* the JSON adapters: "Neutral score on parse failure"
NeutralScore == 50

(***************************************************************************)
(* The regular expressions of the extractors.  Each XxxAt(s, i) is the     *)
(* index of the captured digit run of a match starting at s[i], 0 when     *)
(* the expression does not match there.                                    *)
(***************************************************************************)
\* /OVERALL\s+SCORE[:\s]+(\d+)/i
OverallScoreAt(s, i) ==
  LET j == SkipWs(s, i + 1)
      c == SkipColonWs(s, j + 1)
  IN IF /\ IsOverallWord(s[i])
        /\ j > i + 1 /\ j <= Len(s) /\ IsScoreWord(s[j])
        /\ c > j + 1 /\ c <= Len(s) /\ IsNum(s[c])
     THEN c ELSE 0

\* /Score[:\s]+(\d+)/gi
ScoreAt(s, i) ==
  LET c == SkipColonWs(s, i + 1)
  IN IF IsScoreWord(s[i]) /\ c > i + 1 /\ c <= Len(s) /\ IsNum(s[c])
     THEN c ELSE 0

\* /Score:\s*(\d+)/i
ScoreColonAt(s, i) ==
  LET c == SkipWs(s, i + 2)
  IN IF /\ IsScoreWord(s[i]) /\ i + 1 <= Len(s) /\ s[i + 1].k = ":"
        /\ c <= Len(s) /\ IsNum(s[c])
     THEN c ELSE 0

\* extractScore had it no separate OVERALL SCORE search: the last "Score" label
\* of any kind wins
extractScore_LastLabel(text) ==
  LET scoreMatches == {i \in 1..Len(text) : ScoreAt(text, i) # 0}
  IN IF scoreMatches # {}
     THEN [score |-> text[ScoreAt(text, Max(scoreMatches))].n, warned |-> FALSE]
     ELSE [score |-> ExtractFallback, warned |-> TRUE]

(***************************************************************************)
(* extractScore of the protocol client: [score, warned], warned being the  *)
(* console.warn of the fallback.                                           *)
(***************************************************************************)
extractScore(text) ==
  LET overall == {i \in 1..Len(text) : OverallScoreAt(text, i) # 0}
      scoreMatches == {i \in 1..Len(text) : ScoreAt(text, i) # 0}
  IN IF overall # {}
     THEN \* String.match without the g flag: the leftmost match
          [score |-> text[OverallScoreAt(text, Min(overall))].n, warned |-> FALSE]
     ELSE IF scoreMatches # {}
     THEN \* scoreMatches[scoreMatches.length - 1]
          [score |-> text[ScoreAt(text, Max(scoreMatches))].n, warned |-> FALSE]
     ELSE [score |-> ExtractFallback, warned |-> TRUE]

\* deriveScoreFromAnswer falling back without a warning
deriveScoreFromAnswer_Silent(answer) ==
  LET scoreMatch == {i \in 1..Len(Trim(answer)) : ScoreColonAt(Trim(answer), i) # 0}
  IN IF scoreMatch # {}
     THEN [score |-> Trim(answer)[ScoreColonAt(Trim(answer), Min(scoreMatch))].n,
           warned |-> FALSE]
     ELSE [score |-> DeriveFallback, warned |-> FALSE]

(***************************************************************************)
(* deriveScoreFromAnswer of the question client: [score, warned].          *)
(***************************************************************************)
deriveScoreFromAnswer(answer) ==
  LET trimmed == Trim(answer)
      parsed == IF trimmed # <<>> /\ trimmed[1].k \in {"{", "["}
                THEN JSONparse(trimmed) ELSE JsonFail
      \* parsed.score || parsed.Score || parsed.SCORE
      jscore == JsOr(JsOr(parsed.score, parsed.Score), parsed.SCORE)
      scoreMatch == {i \in 1..Len(trimmed) : ScoreColonAt(trimmed, i) # 0}
      lscore == trimmed[ScoreColonAt(trimmed, Min(scoreMatch))].n
  IN IF parsed.ok /\ jscore.t = "num" /\ jscore.n >= 0 /\ jscore.n <= 100
     THEN [score |-> jscore.n, warned |-> FALSE]
     ELSE IF scoreMatch # {} /\ lscore >= 0 /\ lscore <= 100
     THEN [score |-> lscore, warned |-> FALSE]
     ELSE [score |-> DeriveFallback, warned |-> TRUE]

(***************************************************************************)
(* The provider adapters, from the response text to the LLMResponse.       *)
(* threw: the call ended by throwing; diag: a console.warn/console.error   *)
(* diagnostic was written.                                                 *)
(***************************************************************************)
Returned(score, explanation, diag) ==
  [threw |-> FALSE, score |-> score, explanation |-> explanation, diag |-> diag]
Thrown == [threw |-> TRUE, score |-> Undef, explanation |-> Undef, diag |-> FALSE]
NoResult == [threw |-> FALSE, score |-> Undef, explanation |-> Undef, diag |-> FALSE]

\* a fixed message of the source, as a string
Msg(k) == StrV(<<T(k)>>)

\* the protocol client: callAnthropicStream, callOpenAIStream,
\* callPerplexityStream and callDeepSeekStream end alike
ProtocolStream(fullText) ==
  Returned(NumV(extractScore(fullText).score), StrV(fullText),
           extractScore(fullText).warned)

\* the question client, streaming: callAnthropicStream, callOpenAIStream,
\* callPerplexityStream and callDeepSeekStream end alike
QuestionStream(fullText) ==
  Returned(NumV(deriveScoreFromAnswer(fullText).score), StrV(Trim(fullText)),
           deriveScoreFromAnswer(fullText).warned)

callAnthropic(text) ==
  LET answer == Trim(text)
  IN Returned(NumV(deriveScoreFromAnswer(answer).score), StrV(answer),
              deriveScoreFromAnswer(answer).warned)

callOpenAI(content) ==
  IF content = <<>> THEN Thrown   \* 'Empty response from OpenAI'
  ELSE Returned(NumV(deriveScoreFromAnswer(content).score), StrV(content),
                deriveScoreFromAnswer(content).warned)

\* content.trim() cut down to the span from its first '{' to its last '}'
CleanedContent(content) ==
  LET cleaned == Trim(content)
      jsonStart == IndexOf(cleaned, "{")
      jsonEnd == LastIndexOf(cleaned, "}")
  IN IF jsonStart # 0 /\ jsonEnd # 0 /\ jsonEnd > jsonStart
     THEN SubSeq(cleaned, jsonStart, jsonEnd) ELSE cleaned

\* callPerplexity after the invalid-model retry: the retry response is parsed
\* as JSON
PerplexityRetry(content) ==
  LET parsed == JSONparse(CleanedContent(content))
  IN IF parsed.ok
     THEN Returned(MathMax(NumV(0), MathMin(NumV(100), JsOr(parsed.score, NumV(0)))),
                   JsOr(parsed.explanation, Msg("msgNoExplanation")), FALSE)
     ELSE Returned(NumV(NeutralScore), Msg("msgModelConfiguration"), TRUE)

\* callPerplexity: retried says the first response was the invalid-model error
callPerplexity(content, retried) ==
  IF retried THEN PerplexityRetry(content)
  ELSE Returned(NumV(deriveScoreFromAnswer(content).score), StrV(content),
                deriveScoreFromAnswer(content).warned)

callDeepSeek(content) ==
  Returned(NumV(deriveScoreFromAnswer(content).score), StrV(content),
           deriveScoreFromAnswer(content).warned)

(***************************************************************************)
(* The adapters of the earlier JSON protocol in the same file.             *)
(***************************************************************************)
\* /```json\s*(\{[\s\S]*?\})\s*```/ : [from, to] of the capture, from = 0 if none
FencedJson(s) ==
  LET Open(i) == SkipWs(s, i + 1)
      Closes(i, e) == /\ e > Open(i) /\ e <= Len(s) /\ s[e].k = "}"
                      /\ SkipWs(s, e + 1) <= Len(s)
                      /\ s[SkipWs(s, e + 1)].k \in {"fence", "fenceJson"}
      Starts(i) == /\ s[i].k = "fenceJson"
                   /\ Open(i) <= Len(s) /\ s[Open(i)].k = "{"
                   /\ \E e \in 1..Len(s) : Closes(i, e)
      starts == {i \in 1..Len(s) : Starts(i)}
  IN IF starts = {} THEN [from |-> 0, to |-> 0]
     ELSE [from |-> Open(Min(starts)),
           to |-> Min({e \in 1..Len(s) : Closes(Min(starts), e)})]

callAnthropic_v1(text) ==
  LET trimmed == Trim(text)
      fenced == FencedJson(trimmed)
      jsonText == IF fenced.from # 0 THEN SubSeq(trimmed, fenced.from, fenced.to)
                  ELSE IF IndexOf(trimmed, "{") # 0
                          /\ LastIndexOf(trimmed, "}") > IndexOf(trimmed, "{")
                  THEN SubSeq(trimmed, IndexOf(trimmed, "{"), LastIndexOf(trimmed, "}"))
                  ELSE trimmed
      parsed == JSONparse(jsonText)
  IN IF parsed.ok
     THEN Returned(MathMax(NumV(0), MathMin(NumV(100), JsOr(parsed.score, NumV(0)))),
                   JsOr(parsed.explanation, StrV(text)), FALSE)
     ELSE Returned(NumV(NeutralScore), JsOr(StrV(text), Msg("msgUnableToParse")), TRUE)

callOpenAI_v1(content) ==
  LET parsed == JSONparse(content)
  IN IF content = <<>> THEN Thrown        \* 'Empty response from OpenAI'
     ELSE IF ~parsed.ok THEN Thrown       \* 'Failed to parse OpenAI response as JSON'
     ELSE Returned(MathMax(NumV(0), MathMin(NumV(100), parsed.score)),
                   parsed.explanation, FALSE)

(***************************************************************************)
(* Provider responses: every concatenation of at most MaxPieces pieces.    *)
(***************************************************************************)
\* a per-question line "Score: n"
ScoreLine(n) == <<T("Score"), T(":"), T("ws"), Num(n)>>
\* the line "OVERALL SCORE: n"
OverallLine(n) == <<T("OVERALL"), T("ws"), T("SCORE"), T(":"), T("ws"), Num(n)>>
\* {"<key>": n, "explanation": "w"}, n written with a minus sign when negative
JsonObject(key, n) ==
  <<T("{"), T("q"), T(key), T("q"), T(":"), T("ws")>>
  \o (IF n < 0 THEN <<T("-"), Num(0 - n)>> ELSE <<Num(n)>>)
  \o <<T(","), T("ws"), T("q"), T("explanation"), T("q"), T(":"), T("ws"),
       T("q"), T("w"), T("q"), T("}")>>
\* {"explanation": "w"}
JsonNoScore ==
  <<T("{"), T("q"), T("explanation"), T("q"), T(":"), T("ws"),
    T("q"), T("w"), T("q"), T("}")>>
\* [7]
JsonArray == <<T("["), Num(7), T("]")>>

Pieces ==
  { <<T("w")>>, <<T("ws")>>, <<T("{")>>,
    ScoreLine(80), ScoreLine(150), OverallLine(91), OverallLine(65),
    JsonObject("score", 42), JsonObject("score", 0), JsonObject("score", 150),
    JsonObject("score", 0 - 5), JsonNoScore, JsonArray }

Texts == {Concat(ps) : ps \in UNION {[1..n -> Pieces] : n \in 0..MaxPieces}}

Providers == {"anthropic", "openai", "perplexity", "deepseek"}
ZhiProviders == {"zhi1", "zhi2", "zhi3", "zhi4"}

\* LLMClients.mapProvider of the protocol client
mapProvider(zhiProvider) ==
  CASE zhiProvider = "zhi1" -> "openai"
    [] zhiProvider = "zhi2" -> "anthropic"
    [] zhiProvider = "zhi3" -> "deepseek"
    [] zhiProvider = "zhi4" -> "perplexity"
    [] OTHER -> zhiProvider

VARIABLES
  \* one adapter call
  response,   \* the text a provider answered with
  via,        \* the adapter that took it: [client, provider], or NoAdapter
  result,     \* the LLMResponse of that adapter
  \* one analysis, run by processAnalysisAsync
  request,    \* the AnalysisRequest: [assessmentMode, documentMode, document2Text],
              \* document2Text telling whether a second text was submitted
  pc,         \* "scheduled", "streaming" (awaiting analyzeTextStream),
              \* "completed" or "failed"
  doc,        \* the document being processed, 1 or 2
  phase,      \* the phase of the call awaited
  fullText,   \* the text accumulated by the call awaited
  streamingTranscript,  \* of the document being processed
  phaseResults,         \* phase1Result ..: what each call of calls returned
  docResults, \* what processDocumentWithProtocol returned, per document
  calls,      \* every analyzeTextStream call issued: [doc, phase, previousScore]
  progress,   \* every sendProgressUpdate made: [status, phase]
  analysis,   \* the stored analysis record
  chunksLeft, \* chunks the providers may still stream
  \* one question of processDocument over the segments of a document
  chunkResults,   \* the results pushed so far, one per segment
  questionResult, \* what amalgamateChunkResults returned for the question
  \* the live-progress streams
  activeStreams,  \* analysis id -> the connection whose sendEvent is registered
  conns,          \* the stream connections opened so far
  otherPublished, \* the number of events the other analysis has published
  connsLeft,      \* the stream requests the clients may still make
  \* the submission and the provider's HTTP exchange
  body,     \* the body of the POST /api/analysis awaiting its handler
  reply,    \* the answer to that POST: [status, analysisId, issues]
  records,  \* the number of analysis records storage.createAnalysis made
  apiKey,   \* whether the key of the provider the request names is configured
  fetches,  \* the requests one adapter call has sent to its vendor
  received, \* the responses to them: [status, type]
  thrown,   \* the Error the adapter call threw, if any
  hook      \* the state of useAnalysisStream in the browser that follows the
            \* analysis: its React state, its EventSource, its timers

evars == <<response, via, result>>
ovars == <<request, pc, doc, phase, fullText, streamingTranscript, phaseResults,
           docResults, calls, progress, analysis, chunksLeft>>
svars == <<chunkResults, questionResult>>
rvars == <<activeStreams, conns, otherPublished, connsLeft>>
xvars == <<body, reply, records, apiKey, fetches, received, thrown, hook>>
vars == <<response, via, result, request, pc, doc, phase, fullText,
          streamingTranscript, phaseResults, docResults, calls, progress,
          analysis, chunksLeft, chunkResults, questionResult, activeStreams,
          conns, otherPublished, connsLeft, body, reply, records, apiKey,
          fetches, received, thrown, hook>>

NoAdapter == [client |-> "none", provider |-> "none"]

\* the analysis record storage.createAnalysis made: no results, overallScore null
NewAnalysis == [overallScore |-> Undef, results |-> <<>>, error |-> FALSE]

\* no analysis is running
OrchestratorIdle ==
  /\ request = [assessmentMode |-> "normal", documentMode |-> "single",
                document2Text |-> FALSE]
  /\ pc = "idle"
  /\ doc = 1
  /\ phase = 1
  /\ fullText = <<>>
  /\ streamingTranscript = <<>>
  /\ phaseResults = <<>>
  /\ docResults = <<>>
  /\ calls = <<>>
  /\ progress = <<>>
  /\ analysis = NewAnalysis
  /\ chunksLeft = 0

\* the analysis ids of the model: the analysis followed and another one
Ids == {"A", "B"}
\* an id no analysis was created with
UnknownId == "U"
StreamIds == Ids \cup {UnknownId}

\* no entry in the activeStreams map
NoStream == 0

\* no question is being processed
NoQuestionResult == [score |-> Undef, explanation |-> Undef]
SegmentsIdle ==
  /\ chunkResults = <<>>
  /\ questionResult = NoQuestionResult

\* "const activeStreams = new Map()" and no request for a stream yet
RelayIdle ==
  /\ activeStreams = [id \in StreamIds |-> NoStream]
  /\ conns = <<>>
  /\ otherPublished = 0
  /\ connsLeft = 0

\* no request body awaits the handler
NoBody ==
  [documentMode |-> "", llmProvider |-> "", assessmentType |-> "",
   assessmentMode |-> "", document1Text |-> <<>>, document2Text |-> FALSE]
\* the handler has not answered
NoReply == [status |-> 0, analysisId |-> "", issues |-> {}]
\* "res.json({ analysisId: analysis.id, ... })"
Accepted(analysisId) == [status |-> 200, analysisId |-> analysisId, issues |-> {}]
\* "res.status(400).json({ message: error.message })", the message of a
\* ZodError listing the fields at fault
Rejected(issues) == [status |-> 400, analysisId |-> "", issues |-> issues]

\* new Error(`${text}: ${response.statusText} (Status: ${response.status})`);
\* a status text stands as the status it is the phrase of, 0 where the message
\* has none
Error(text, statusText, status) ==
  [text |-> text, statusText |-> statusText, status |-> status]

\* useAnalysisStream before its first render.  eventSource is "none",
\* "connecting", "open" or "closed" and attempts the reconnectAttempts its
\* handlers closed over; polling is the chain of pollForCompletion the last
\* run of the fallback effect started, "none", "fetching" or "waiting";
\* strayFetching and strayWaiting count the chains of earlier runs; opened
\* counts the EventSources created, opens those that opened, failed the
\* errors since the last one that opened.
Unmounted ==
  [mounted |-> FALSE, reconnectAttempts |-> 0, isComplete |-> FALSE,
   error |-> "", eventSource |-> "none", attempts |-> 0,
   reconnectTimeout |-> FALSE, polling |-> "none", strayFetching |-> 0,
   strayWaiting |-> 0, opened |-> 0, opens |-> 0, failed |-> 0]

\* no adapter call has sent a request
NoExchange ==
  /\ fetches = <<>>
  /\ received = <<>>
  /\ thrown = Error("", 0, 0)
  /\ hook = Unmounted

\* nothing was submitted
NoSubmission ==
  /\ body = NoBody
  /\ reply = NoReply
  /\ records = 0
  /\ apiKey = TRUE
  /\ NoExchange

InitExtract ==
  /\ response \in Texts
  /\ via = NoAdapter
  /\ result = NoResult
  /\ OrchestratorIdle
  /\ SegmentsIdle
  /\ RelayIdle
  /\ NoSubmission

\* analyzeTextStream of the protocol client (llm-clients-new)
ProtocolAnalyzeTextStream ==
  /\ via = NoAdapter
  /\ \E zhiProvider \in ZhiProviders :
       /\ mapProvider(zhiProvider) \in Providers
       /\ via' = [client |-> "protocol", provider |-> mapProvider(zhiProvider)]
  /\ result' = ProtocolStream(response)
  /\ UNCHANGED response
  /\ UNCHANGED <<ovars, svars, xvars, rvars>>

\* analyzeTextStream of the question client (llm-clients)
AnalyzeTextStream ==
  /\ via = NoAdapter
  /\ \E provider \in Providers :
       via' = [client |-> "questionStream", provider |-> provider]
  /\ result' = QuestionStream(response)
  /\ UNCHANGED response
  /\ UNCHANGED <<ovars, svars, xvars, rvars>>

\* analyzeText of the question client (llm-clients)
AnalyzeText ==
  /\ via = NoAdapter
  /\ \E provider \in Providers, retried \in BOOLEAN :
       /\ retried => provider = "perplexity"
       /\ via' = [client |-> IF retried THEN "questionRetry" ELSE "question",
                  provider |-> provider]
       /\ result' = CASE provider = "anthropic" -> callAnthropic(response)
                      [] provider = "openai" -> callOpenAI(response)
                      [] provider = "perplexity" -> callPerplexity(response, retried)
                      [] provider = "deepseek" -> callDeepSeek(response)
  /\ UNCHANGED response
  /\ UNCHANGED <<ovars, svars, xvars, rvars>>

\* analyzeText of the earlier JSON protocol (llm-clients, first class)
AnalyzeText_v1 ==
  /\ via = NoAdapter
  /\ \E provider \in {"anthropic", "openai"} :
       /\ via' = [client |-> "json", provider |-> provider]
       /\ result' = CASE provider = "anthropic" -> callAnthropic_v1(response)
                      [] provider = "openai" -> callOpenAI_v1(response)
  /\ UNCHANGED response
  /\ UNCHANGED <<ovars, svars, xvars, rvars>>

NextExtract ==
  \/ ProtocolAnalyzeTextStream
  \/ AnalyzeTextStream
  \/ AnalyzeText
  \/ AnalyzeText_v1

SpecExtract == InitExtract /\ [][NextExtract]_vars

(***************************************************************************)
(* The orchestrator: processAnalysisAsync and processDocumentWithProtocol. *)
(* An action runs from one await to the next.                              *)
(***************************************************************************)
\* "Run Phases 2-4 if score < 95"
CalibrationThreshold == 95

\* what a provider may stream as one chunk
StreamChunks == {OverallLine(95), OverallLine(94), <<T("w")>>}

\* the text the onStream callback of a phase puts before each chunk
PhaseMarker(p) ==
  CASE p = 1 -> <<>>
    [] p = 2 -> <<T("markerPhase2Pushback")>>
    [] p = 3 -> <<T("markerPhase3WalmartMetric")>>
    [] p = 4 -> <<T("markerPhase4FinalValidation")>>

Event(status, p, chunk) == [status |-> status, phase |-> p, chunk |-> chunk]

RECURSIVE SumScores(_)
SumScores(rs) == IF rs = <<>> THEN 0 ELSE Head(rs).score.n + SumScores(Tail(rs))
\* Math.round(a / b) for a >= 0, b > 0
RoundDiv(a, b) == (2 * a + b) \div (2 * b)

\* calculateOverallScore(doc1Results, doc2Results), rs the results per document
calculateOverallScore(rs) ==
  IF Len(rs) > 1 THEN 0      \* "No overall score for dual mode"
  ELSE RoundDiv(SumScores(<<rs[1]>>), 1)

\* generateComparison: the rounded averages of the two documents
generateComparison(rs) ==
  IF Len(rs) > 1
  THEN <<RoundDiv(SumScores(<<rs[1]>>), 1), RoundDiv(SumScores(<<rs[2]>>), 1)>>
  ELSE <<>>

(***************************************************************************)
(* The live-progress streams: GET /api/analysis/:id/stream registers the   *)
(* sendEvent of its connection in activeStreams, sendProgressUpdate hands  *)
(* an event to the sendEvent registered for the analysis.                  *)
(***************************************************************************)
\* the id of the analysis processAnalysisAsync is run for
AnalysisId == "A"

NoData == Event("", 0, <<>>)
\* what res.write puts on the wire
SseEvent(type, analysisId, data) ==
  [type |-> type, analysisId |-> analysisId, data |-> data]

\* sendEvent of connection c: "if (!isConnected) return false; res.write(...)"
\* a connection whose sendEvent puts the event before what it has written
sendEvent_Unordered(cs, c, data) ==
  IF ~cs[c].isConnected \/ cs[c].ended THEN cs
  ELSE [cs EXCEPT ![c].written = <<data>> \o @]

\* a response that still takes writes after res.end()
sendEvent_AfterEnd(cs, c, data) ==
  IF ~cs[c].isConnected THEN cs
  ELSE IF data.type \in {"update", "heartbeat"}
          /\ cs[c].written[Len(cs[c].written)] = data
  THEN cs
  ELSE [cs EXCEPT ![c].written = Append(@, data)]

\* (a write after res.end() puts nothing on the wire; a run of identical
\* 'update' or 'heartbeat' events is kept as one)
sendEvent(cs, c, data) ==
  IF ~cs[c].isConnected \/ cs[c].ended THEN cs
  ELSE IF data.type \in {"update", "heartbeat"}
          /\ cs[c].written[Len(cs[c].written)] = data
  THEN cs
  ELSE [cs EXCEPT ![c].written = Append(@, data)]

\* a publish that reaches the stream registered for any analysis
sendProgressUpdate_Broadcast(cs, analysisId, progressData) ==
  LET registered == {id \in Ids : activeStreams[id] # NoStream}
  IN IF registered # {}
     THEN sendEvent(cs, activeStreams[CHOOSE id \in registered : TRUE],
                    SseEvent("progress", analysisId, progressData))
     ELSE cs

sendProgressUpdate(cs, analysisId, progressData) ==
  IF activeStreams[analysisId] # NoStream
  THEN sendEvent(cs, activeStreams[analysisId],
                 SseEvent("progress", analysisId, progressData))
  ELSE cs

\* the sendProgressUpdate calls of one step, in order
RECURSIVE sendProgressUpdates(_, _, _)
sendProgressUpdates(cs, analysisId, events) ==
  IF events = <<>> THEN cs
  ELSE sendProgressUpdates(sendProgressUpdate(cs, analysisId, Head(events)),
                           analysisId, Tail(events))

\* every event a step of the orchestrator appends to progress is a call of
\* sendProgressUpdate
Publishes ==
  /\ conns' = sendProgressUpdates(conns, AnalysisId,
                                  SubSeq(progress', Len(progress) + 1,
                                         Len(progress')))
  /\ UNCHANGED <<activeStreams, otherPublished, connsLeft>>

\* the POST /api/analysis of the analysis was answered with its id
Submitted ==
  /\ body = NoBody
  /\ reply = Accepted(AnalysisId)
  /\ records = 1
  /\ apiKey = TRUE
  /\ NoExchange

Init ==
  /\ response = <<>>
  /\ via = NoAdapter
  /\ result = NoResult
  /\ request \in [assessmentMode : {"normal", "comprehensive"},
                  documentMode : {"single", "dual"},
                  document2Text : BOOLEAN]
  /\ pc = "scheduled"
  /\ doc = 1
  /\ phase = 1
  /\ fullText = <<>>
  /\ streamingTranscript = <<>>
  /\ phaseResults = <<>>
  /\ docResults = <<>>
  /\ calls = <<>>
  /\ progress = <<>>
  /\ analysis = NewAnalysis
  /\ chunksLeft = MaxChunks
  /\ SegmentsIdle
  /\ RelayIdle
  /\ Submitted

\* the call made without its phase argument, which then defaults to 1
IssueCall_DefaultPhase(d, p, previousScore) ==
  /\ calls' = Append(calls, [doc |-> d, phase |-> 1, previousScore |-> previousScore])
  /\ doc' = d
  /\ phase' = 1
  /\ fullText' = <<>>
  /\ pc' = "streaming"

\* buildProtocolPrompt: the scores the prompt of phase p embeds. Phases 2 and 3
\* hand previousScore to getPhase2Pushback and getPhase3WalmartMetric, which
\* put it in their text; phase 4 calls getPhase4Validation(assessmentType),
\* which is given no score
buildProtocolPrompt(p, previousScore) ==
  IF p \in {2, 3} /\ previousScore # Undef THEN <<previousScore>> ELSE <<>>

\* newClient.analyzeTextStream(provider, text, type, mode, onStream, p, previousScore)
\* is called and awaited
IssueCall(d, p, previousScore) ==
  /\ calls' = Append(calls, [doc |-> d, phase |-> p, previousScore |-> previousScore])
  /\ doc' = d
  /\ phase' = p
  /\ fullText' = <<>>
  /\ pc' = "streaming"

\* processAnalysisAsync starts and processDocumentWithProtocol issues phase 1
\* of document 1
ProcessAnalysisAsync ==
  /\ pc = "scheduled"
  /\ progress' = progress \o <<Event("starting", 0, <<>>),
                               Event("processing_document_1", 0, <<>>),
                               Event("protocol_analysis", 1, <<>>)>>
  /\ IssueCall(1, 1, Undef)
  /\ UNCHANGED <<streamingTranscript, phaseResults, docResults, analysis,
                 chunksLeft, request, evars, svars, xvars>>
  /\ Publishes

\* the provider streams one chunk: the adapter appends it to fullText and calls
\* the onStream callback of the phase ("if (!this.anthropic) throw ...": without
\* the provider's key the call can only throw)
OnStream ==
  /\ pc = "streaming"
  /\ apiKey
  /\ chunksLeft > 0
  /\ \E chunk \in StreamChunks :
       /\ fullText' = fullText \o chunk
       /\ streamingTranscript' = streamingTranscript \o PhaseMarker(phase) \o chunk
       /\ progress' = Append(progress, Event("streaming", phase, chunk))
  /\ chunksLeft' = chunksLeft - 1
  /\ UNCHANGED <<pc, doc, phase, phaseResults, docResults, calls, analysis,
                 request, evars, svars, xvars>>
  /\ Publishes

\* "if (assessmentMode === 'comprehensive' && phase1Result.score < 95)"
RunsLadder_Inclusive(assessmentMode, score) ==
  assessmentMode = "comprehensive" /\ score <= CalibrationThreshold

RunsLadder(assessmentMode, score) ==
  assessmentMode = "comprehensive" /\ score < CalibrationThreshold

\* the ladder that stops as soon as a phase reaches the threshold
LadderStep_Calibrated(p, assessmentMode, score) ==
  IF p = 1 THEN (IF RunsLadder(assessmentMode, score) THEN 2 ELSE 0)
  ELSE IF p < 4 /\ score < CalibrationThreshold THEN p + 1
  ELSE 0

\* the phase processDocumentWithProtocol calls after phase p returned score,
\* 0 when it runs on to its return statement
LadderStep(p, assessmentMode, score) ==
  IF p = 1 THEN (IF RunsLadder(assessmentMode, score) THEN 2 ELSE 0)
  ELSE IF p < 4 THEN p + 1
  ELSE 0

\* the third argument of the call of phase p, r the result of the phase before:
\* phase1Result.score for phase 2, phase2Result.score for phase 3, none for 4
previousScoreArg_None(p, r) == Undef

previousScoreArg(p, r) == IF p \in {2, 3} THEN r.score ELSE Undef

\* finalScore at the return statement, rs the results of the phases that ran
finalScore_Phase1(rs) == rs[1].score

\* (in the ladder the last result is phase4Result)
finalScore(rs) == IF Len(rs) > 1 THEN rs[Len(rs)].score ELSE rs[1].score

\* finalExplanation at the return statement
finalExplanation(rs, transcript) ==
  IF Len(rs) > 1 THEN StrV(transcript) ELSE rs[1].explanation

\* a return that stores an overall score after each document
DocumentReturns_StoresEach(score, explanation, evs) ==
  LET rs == Append(docResults,
                   [score |-> score, explanation |-> explanation,
                    streamingTranscript |-> streamingTranscript])
  IN /\ docResults' = rs
     /\ analysis' = [overallScore |-> NumV(calculateOverallScore(rs)),
                     results |-> rs, error |-> FALSE]
     /\ IF doc = 1 /\ request.documentMode = "dual" /\ request.document2Text
        THEN /\ progress' = progress \o evs
                              \o <<Event("processing_document_2", 0, <<>>),
                                   Event("protocol_analysis", 1, <<>>)>>
             /\ IssueCall(2, 1, Undef)
             /\ streamingTranscript' = <<>>
        ELSE /\ progress' = progress \o evs
                              \o (IF doc = 2
                                  THEN <<Event("generating_comparison", 0, <<>>)>>
                                  ELSE <<>>)
                              \o <<Event("finalizing", 0, <<>>),
                                   Event("completed", 0, <<>>)>>
             /\ pc' = "completed"
             /\ UNCHANGED <<doc, phase, fullText, streamingTranscript, calls>>

\* processDocumentWithProtocol returns for document doc; processAnalysisAsync
\* goes on to the second document or stores the results
DocumentReturns(score, explanation, evs) ==
  LET rs == Append(docResults,
                   [score |-> score, explanation |-> explanation,
                    streamingTranscript |-> streamingTranscript])
  IN /\ docResults' = rs
     /\ IF doc = 1 /\ request.documentMode = "dual" /\ request.document2Text
        THEN /\ progress' = progress \o evs
                              \o <<Event("processing_document_2", 0, <<>>),
                                   Event("protocol_analysis", 1, <<>>)>>
             /\ IssueCall(2, 1, Undef)
             /\ streamingTranscript' = <<>>
             /\ UNCHANGED analysis
        ELSE /\ progress' = progress \o evs
                              \o (IF doc = 2
                                  THEN <<Event("generating_comparison", 0, <<>>)>>
                                  ELSE <<>>)
                              \o <<Event("finalizing", 0, <<>>),
                                   Event("completed", 0, <<>>)>>
             /\ analysis' = [overallScore |-> NumV(calculateOverallScore(rs)),
                             results |-> rs, error |-> FALSE]
             /\ pc' = "completed"
             /\ UNCHANGED <<doc, phase, fullText, streamingTranscript, calls>>

\* the results of the calls issued for the document being processed
ResultsOfDoc(rs) ==
  LET first == CHOOSE i \in 1..Len(calls) :
                 calls[i].doc = doc /\ calls[i].phase = 1
  IN SubSeq(rs, first, Len(rs))

PhaseStatus(p) ==
  CASE p = 2 -> "phase_2" [] p = 3 -> "phase_3" [] p = 4 -> "phase_4"

\* the call awaited returns: the adapter extracts the score of fullText and
\* processDocumentWithProtocol runs on to its next call or to its return
AnalyzeTextStreamReturns ==
  /\ pc = "streaming"
  /\ apiKey
  /\ LET r == ProtocolStream(fullText)
         done == Append(phaseResults, r)
         next == LadderStep(phase, request.assessmentMode, r.score.n)
     IN /\ phaseResults' = done
        /\ IF next # 0
           THEN /\ progress' = Append(progress, Event(PhaseStatus(next), next, <<>>))
                /\ IssueCall(doc, next, previousScoreArg(next, r))
                /\ UNCHANGED <<streamingTranscript, docResults, analysis>>
           ELSE DocumentReturns(finalScore(ResultsOfDoc(done)),
                                finalExplanation(ResultsOfDoc(done),
                                                 streamingTranscript),
                                <<>>)
  /\ UNCHANGED <<chunksLeft, request, evars, svars, xvars>>
  /\ Publishes

\* a catch that stores the score of the last phase that returned
AnalyzeTextStreamThrows_KeepsScore ==
  /\ pc = "streaming"
  /\ analysis' = [overallScore |-> IF phaseResults = <<>> THEN NumV(0)
                                   ELSE phaseResults[Len(phaseResults)].score,
                  results |-> <<>>, error |-> TRUE]
  /\ pc' = "failed"
  /\ UNCHANGED <<doc, phase, fullText, streamingTranscript, phaseResults,
                 docResults, calls, progress, chunksLeft, request, evars, svars, xvars,
                 rvars>>

\* a failure that nothing catches: nothing is stored
AnalyzeTextStreamThrows_Unhandled ==
  /\ pc = "streaming"
  /\ pc' = "failed"
  /\ UNCHANGED <<doc, phase, fullText, streamingTranscript, phaseResults,
                 docResults, calls, progress, analysis, chunksLeft, request,
                 evars, svars, xvars, rvars>>

\* a catch that announces the stored error as a completion
AnalyzeTextStreamThrows_Announces ==
  /\ pc = "streaming"
  /\ analysis' = [overallScore |-> NumV(0), results |-> <<>>, error |-> TRUE]
  /\ progress' = Append(progress, Event("completed", 0, <<>>))
  /\ pc' = "failed"
  /\ UNCHANGED <<doc, phase, fullText, streamingTranscript, phaseResults,
                 docResults, calls, chunksLeft, request, evars, svars, xvars,
                 rvars>>

\* the call awaited throws: the catch of processAnalysisAsync stores the error
\* with overallScore 0
AnalyzeTextStreamThrows ==
  /\ pc = "streaming"
  /\ analysis' = [overallScore |-> NumV(0), results |-> <<>>, error |-> TRUE]
  /\ pc' = "failed"
  /\ UNCHANGED <<doc, phase, fullText, streamingTranscript, phaseResults,
                 docResults, calls, progress, chunksLeft, request, evars, svars, xvars,
                 rvars>>

Next ==
  \/ ProcessAnalysisAsync
  \/ OnStream
  \/ AnalyzeTextStreamReturns
  \/ AnalyzeTextStreamThrows

Spec == Init /\ [][Next]_vars

\* the timer of the submission fires and every awaited provider call settles,
\* by returning or by throwing
Fairness ==
  /\ WF_vars(ProcessAnalysisAsync)
  /\ WF_vars(AnalyzeTextStreamThrows \/ AnalyzeTextStreamReturns)

SpecLive == Spec /\ Fairness

\* ---- POST /api/analysis ----

MaxSubmitChunks == 1

DocumentModes == {"single", "dual"}
AssessmentTypes == {"cognitive", "psychological", "psychopathological"}
AssessmentModes == {"normal", "comprehensive"}

\* a schema that accepts an empty document text
analysisRequestSchema_AnyText(b) ==
  {f \in {"documentMode", "llmProvider", "assessmentType", "assessmentMode"} :
     CASE f = "documentMode" -> b.documentMode \notin DocumentModes
       [] f = "llmProvider" -> b.llmProvider \notin ZhiProviders
       [] f = "assessmentType" -> b.assessmentType \notin AssessmentTypes
       [] f = "assessmentMode" -> b.assessmentMode \notin AssessmentModes}

\* analysisRequestSchema.parse(b): the fields of b that fail, none when it
\* parses
analysisRequestSchema(b) ==
  {f \in {"documentMode", "llmProvider", "assessmentType", "assessmentMode",
          "document1Text"} :
     CASE f = "documentMode" -> b.documentMode \notin DocumentModes
       [] f = "llmProvider" -> b.llmProvider \notin ZhiProviders
       [] f = "assessmentType" -> b.assessmentType \notin AssessmentTypes
       [] f = "assessmentMode" -> b.assessmentMode \notin AssessmentModes
       [] f = "document1Text" -> Len(b.document1Text) < 1}

\* the bodies submitted: each enumerated field with its values and one value
\* outside them, the first text empty or not, the second text given or not
Bodies ==
  [documentMode : DocumentModes \cup {"other"},
   llmProvider : ZhiProviders \cup {"other"},
   assessmentType : {"cognitive", "other"},
   assessmentMode : AssessmentModes \cup {"other"},
   document1Text : {<<>>, <<T("w")>>},
   document2Text : BOOLEAN]

\* a body awaits the handler, with or without the provider's key configured
InitSubmit ==
  /\ response = <<>>
  /\ via = NoAdapter
  /\ result = NoResult
  /\ request = [assessmentMode |-> "normal", documentMode |-> "single",
                document2Text |-> FALSE]
  /\ pc = "idle"
  /\ doc = 1
  /\ phase = 1
  /\ fullText = <<>>
  /\ streamingTranscript = <<>>
  /\ phaseResults = <<>>
  /\ docResults = <<>>
  /\ calls = <<>>
  /\ progress = <<>>
  /\ analysis = NewAnalysis
  /\ chunksLeft = MaxSubmitChunks
  /\ SegmentsIdle
  /\ RelayIdle
  /\ body \in Bodies
  /\ reply = NoReply
  /\ records = 0
  /\ apiKey \in BOOLEAN
  /\ NoExchange

\* the handler of POST /api/analysis: parse, createAnalysis, setTimeout of
\* processAnalysisAsync, res.json; the catch answers 400
PostAnalysis ==
  /\ body # NoBody
  /\ LET issues == analysisRequestSchema(body)
     IN IF issues = {}
        THEN /\ records' = records + 1
             /\ analysis' = NewAnalysis
             /\ request' = [assessmentMode |-> body.assessmentMode,
                            documentMode |-> body.documentMode,
                            document2Text |-> body.document2Text]
             /\ pc' = "scheduled"
             /\ reply' = Accepted(AnalysisId)
        ELSE /\ reply' = Rejected(issues)
             /\ UNCHANGED <<records, analysis, request, pc>>
  /\ body' = NoBody
  /\ UNCHANGED <<doc, phase, fullText, streamingTranscript, phaseResults,
                 docResults, calls, progress, chunksLeft, apiKey, fetches,
                 received, thrown, hook, evars, svars, rvars>>

NextSubmit ==
  \/ PostAnalysis
  \/ Next

SpecSubmit == InitSubmit /\ [][NextSubmit]_vars

\* ---- the question client's requests to api.perplexity.ai ----

\* the responses of the vendor: OK, or an error of some status whose body
\* carries a type, another type, or none
ErrorTypes == {"invalid_model", "other", ""}
Responses ==
  {[status |-> 200, type |-> ""]} \cup [status : {400, 500}, type : ErrorTypes]
\* response.ok
Ok(r) == r.status \in 200..299

\* "model: 'sonar'", in the first request and in the retry alike
Fetch(stream) == [model |-> "sonar", stream |-> stream]

\* the content the vendor answers with when it answers OK
InitPerplexity ==
  /\ response \in Pieces \cup {<<>>}
  /\ via = NoAdapter
  /\ result = NoResult
  /\ OrchestratorIdle
  /\ SegmentsIdle
  /\ RelayIdle
  /\ body = NoBody
  /\ reply = NoReply
  /\ records = 0
  /\ apiKey \in BOOLEAN
  /\ NoExchange

PerplexityFrame ==
  UNCHANGED <<response, body, reply, records, apiKey, hook, ovars, svars,
              rvars>>

\* callPerplexity (stream FALSE) or callPerplexityStream (stream TRUE) is
\* entered: it throws without the key, else sends its request
CallPerplexity(stream) ==
  /\ via = NoAdapter
  /\ via' = [client |-> IF stream THEN "questionStream" ELSE "question",
             provider |-> "perplexity"]
  /\ IF apiKey
     THEN /\ fetches' = <<Fetch(stream)>>
          /\ UNCHANGED <<result, thrown>>
     ELSE /\ result' = Thrown
          /\ thrown' = Error("Perplexity API key not configured on server", 0, 0)
          /\ UNCHANGED fetches
  /\ UNCHANGED received
  /\ PerplexityFrame

\* a non-OK answer that was given a score
PerplexityResponds_ScoresFailure ==
  /\ via # NoAdapter
  /\ via.provider = "perplexity"
  /\ result = NoResult
  /\ Len(fetches) = 1
  /\ received = <<>>
  /\ \E r \in Responses :
       /\ received' = <<r>>
       /\ IF Ok(r)
          THEN /\ result' = IF fetches[1].stream
                            THEN QuestionStream(response)
                            ELSE callPerplexity(response, FALSE)
               /\ UNCHANGED <<fetches, thrown>>
          ELSE IF ~fetches[1].stream /\ r.status = 400 /\ r.type = "invalid_model"
          THEN /\ fetches' = Append(fetches, Fetch(FALSE))
               /\ UNCHANGED <<result, thrown>>
          ELSE /\ result' = PerplexityRetry(<<>>)
               /\ UNCHANGED <<fetches, thrown>>
  /\ UNCHANGED via
  /\ PerplexityFrame

\* the first request is answered
PerplexityResponds ==
  /\ via # NoAdapter
  /\ via.provider = "perplexity"
  /\ result = NoResult
  /\ Len(fetches) = 1
  /\ received = <<>>
  /\ \E r \in Responses :
       /\ received' = <<r>>
       /\ IF Ok(r)
          THEN /\ result' = IF fetches[1].stream
                            THEN QuestionStream(response)
                            ELSE callPerplexity(response, FALSE)
               /\ UNCHANGED <<fetches, thrown>>
          ELSE IF ~fetches[1].stream /\ r.status = 400 /\ r.type = "invalid_model"
          THEN /\ fetches' = Append(fetches, Fetch(FALSE))
               /\ UNCHANGED <<result, thrown>>
          ELSE /\ result' = Thrown
               /\ thrown' = Error("Perplexity API error", r.status,
                                  IF fetches[1].stream THEN 0 ELSE r.status)
               /\ UNCHANGED fetches
  /\ UNCHANGED via
  /\ PerplexityFrame

\* the retry is answered
PerplexityRetryResponds ==
  /\ result = NoResult
  /\ Len(fetches) = 2
  /\ Len(received) = 1
  /\ \E r \in Responses :
       /\ received' = Append(received, r)
       /\ result' = IF Ok(r) THEN callPerplexity(response, TRUE) ELSE Thrown
       /\ thrown' = IF Ok(r) THEN thrown
                    ELSE Error("Perplexity API error after retry", r.status, 0)
  /\ UNCHANGED <<via, fetches>>
  /\ PerplexityFrame

NextPerplexity ==
  \/ \E stream \in BOOLEAN : CallPerplexity(stream)
  \/ PerplexityResponds
  \/ PerplexityRetryResponds

SpecPerplexity == InitPerplexity /\ [][NextPerplexity]_vars

\* callDeepSeek (stream FALSE) or callDeepSeekStream (stream TRUE) is entered
CallDeepSeek(stream) ==
  /\ via = NoAdapter
  /\ via' = [client |-> IF stream THEN "questionStream" ELSE "question",
             provider |-> "deepseek"]
  /\ IF apiKey
     THEN /\ fetches' = <<[model |-> "deepseek-chat", stream |-> stream]>>
          /\ UNCHANGED <<result, thrown>>
     ELSE /\ result' = Thrown
          /\ thrown' = Error("DeepSeek API key not configured on server", 0, 0)
          /\ UNCHANGED fetches
  /\ UNCHANGED received
  /\ PerplexityFrame

\* the request of callDeepSeek or callDeepSeekStream is answered
DeepSeekResponds ==
  /\ via # NoAdapter
  /\ via.provider = "deepseek"
  /\ result = NoResult
  /\ Len(fetches) = 1
  /\ received = <<>>
  /\ \E r \in Responses :
       /\ received' = <<r>>
       /\ IF Ok(r)
          THEN /\ result' = IF fetches[1].stream THEN QuestionStream(response)
                            ELSE callDeepSeek(response)
               /\ UNCHANGED thrown
          ELSE /\ result' = Thrown
               /\ thrown' = Error("DeepSeek API error", r.status, 0)
  /\ UNCHANGED <<via, fetches>>
  /\ PerplexityFrame

\* one call of either adapter that speaks HTTP itself
NextTransport ==
  \/ NextPerplexity
  \/ \E stream \in BOOLEAN : CallDeepSeek(stream)
  \/ DeepSeekResponds

SpecTransport == InitPerplexity /\ [][NextTransport]_vars

(***************************************************************************)
(* One question of processDocument (routes.ts): a provider call per        *)
(* segment, then amalgamateChunkResults.                                   *)
(***************************************************************************)
MaxSegments == 3

\* what a provider may answer for one segment
SegmentTexts == {ScoreLine(0), ScoreLine(80), ScoreLine(65), <<T("w")>>}

\* `Error: ${error.message}`
ErrorText == <<T("Error:"), T("ws"), T("w")>>

\* explanation.startsWith('Error:')
StartsWithError(v) == v.t = "str" /\ v.s # <<>> /\ v.s[1].k = "Error:"

\* explanations.join('\n\n')
RECURSIVE JoinExplanations(_)
JoinExplanations(rs) ==
  IF rs = <<>> THEN <<>>
  ELSE IF Len(rs) = 1 THEN rs[1].explanation.s
  ELSE rs[1].explanation.s \o <<T("nn")>> \o JoinExplanations(Tail(rs))

amalgamateChunkResults(rs) ==
  LET IsValid(r) == r.score.n > 0
      validResults == SelectSeq(rs, IsValid)
      averageScore == IF Len(validResults) > 0
                      THEN RoundDiv(SumScores(validResults), Len(validResults))
                      ELSE 0
      HasExplanation(r) == Truthy(r.explanation) /\ ~StartsWithError(r.explanation)
      explanations == SelectSeq(rs, HasExplanation)
      combinedExplanation == IF Len(explanations) > 0
                             THEN StrV(JoinExplanations(explanations))
                             ELSE Msg("unableToGenerateExplanation")
  IN [score |-> NumV(averageScore), explanation |-> combinedExplanation]

InitSegments ==
  /\ response = <<>>
  /\ via = NoAdapter
  /\ result = NoResult
  /\ OrchestratorIdle
  /\ SegmentsIdle
  /\ RelayIdle
  /\ NoSubmission

\* the rest of the state, which a step of processDocument leaves alone
SegmentFrame ==
  UNCHANGED <<request, pc, doc, phase, fullText, streamingTranscript,
              phaseResults, docResults, calls, analysis, chunksLeft, evars,
              xvars>>

\* the call for the next segment returns and its result is pushed
ProcessChunkReturns ==
  /\ questionResult = NoQuestionResult
  /\ Len(chunkResults) < MaxSegments
  /\ \E text \in SegmentTexts :
       /\ chunkResults' = Append(chunkResults,
                                 [score |-> QuestionStream(text).score,
                                  explanation |-> QuestionStream(text).explanation])
       /\ progress' = progress \o <<Event("processing_chunk", 0, <<>>),
                                    Event("streaming", 0, text)>>
  /\ UNCHANGED questionResult
  /\ Publishes
  /\ SegmentFrame

\* the call for the next segment throws and the catch pushes the error entry
ProcessChunkThrows ==
  /\ questionResult = NoQuestionResult
  /\ Len(chunkResults) < MaxSegments
  /\ chunkResults' = Append(chunkResults,
                            [score |-> NumV(0), explanation |-> StrV(ErrorText)])
  /\ progress' = Append(progress, Event("processing_chunk", 0, <<>>))
  /\ UNCHANGED questionResult
  /\ Publishes
  /\ SegmentFrame

\* the loop over the segments is over
AmalgamateChunkResults ==
  /\ questionResult = NoQuestionResult
  /\ questionResult' = amalgamateChunkResults(chunkResults)
  /\ progress' = Append(progress, Event("question_completed", 0, <<>>))
  /\ UNCHANGED chunkResults
  /\ Publishes
  /\ SegmentFrame

NextSegments ==
  \/ ProcessChunkReturns
  \/ ProcessChunkThrows
  \/ AmalgamateChunkResults

SpecSegments == InitSegments /\ [][NextSegments]_vars

(***************************************************************************)
(* The orchestrator together with the stream connections of its clients.   *)
(***************************************************************************)
MaxConns == 2
MaxRelayChunks == 1
MaxOtherEvents == 1
MaxOrderConns == 1
MaxOrderChunks == 2
MaxPollConns == 1
MaxPollChunks == 1
MaxInFlight == 2

\* a connection that replays the events published before it registered
NewConnection_Replays(analysisId) ==
  [id |-> analysisId, isConnected |-> TRUE, ended |-> FALSE,
   pollInterval |-> TRUE, polls |-> <<>>,
   written |-> <<SseEvent("connected", analysisId, NoData)>>
                 \o [i \in 1..Len(progress) |->
                       SseEvent("progress", AnalysisId, progress[i])]]

\* "let isConnected = true; sendEvent({ type: 'connected', analysisId })"
NewConnection(analysisId) ==
  [id |-> analysisId, isConnected |-> TRUE, ended |-> FALSE,
   pollInterval |-> TRUE, polls |-> <<>>,
   written |-> <<SseEvent("connected", analysisId, NoData)>>]

\* the rest of the state, which the stream endpoint leaves alone
RelayFrame == UNCHANGED <<ovars, evars, svars, xvars>>

\* GET /api/analysis/:id/stream
GetStream(analysisId) ==
  /\ connsLeft > 0
  /\ connsLeft' = connsLeft - 1
  /\ conns' = Append(conns, NewConnection(analysisId))
  /\ activeStreams' = [activeStreams EXCEPT ![analysisId] = Len(conns) + 1]
  /\ UNCHANGED otherPublished
  /\ RelayFrame

\* a cleanup that also cancels the analysis
Cleanup_Cancels(c) ==
  /\ c \in 1..Len(conns)
  /\ conns' = [conns EXCEPT ![c].isConnected = FALSE,
                            ![c].pollInterval = FALSE]
  /\ activeStreams' = [activeStreams EXCEPT ![conns[c].id] = NoStream]
  /\ pc' = IF pc = "streaming" THEN "failed" ELSE pc
  /\ UNCHANGED <<otherPublished, connsLeft>>
  /\ UNCHANGED <<request, doc, phase, fullText, streamingTranscript,
                 phaseResults, docResults, calls, progress, analysis,
                 chunksLeft, evars, svars, xvars>>

\* cleanup of connection c, which is registered for 'close' and 'error' of
\* the request and 'close' of the response and so may run again
Cleanup(c) ==
  /\ c \in 1..Len(conns)
  /\ conns' = [conns EXCEPT ![c].isConnected = FALSE,
                            ![c].pollInterval = FALSE]
  /\ activeStreams' = [activeStreams EXCEPT ![conns[c].id] = NoStream]
  /\ UNCHANGED <<otherPublished, connsLeft>>
  /\ RelayFrame

\* the record storage.getAnalysis finds: the other analysis is in flight
\* storage.getAnalysis(analysisId): undefined for an id without a record
StoredAnalysis(analysisId) ==
  [found |-> analysisId # UnknownId,
   analysis |-> IF analysisId = AnalysisId THEN analysis ELSE NewAnalysis]

\* GET /api/analysis/:id: 404 without a record, else the record
GetAnalysis(analysisId) ==
  IF ~StoredAnalysis(analysisId).found
  THEN [status |-> 404, analysis |-> NewAnalysis]
  ELSE [status |-> 200, analysis |-> StoredAnalysis(analysisId).analysis]

\* GET /api/analysis/:id/report: 404 without a record, 400 "Analysis not yet
\* complete" on "!analysis.results || !analysis.overallScore", else the report
\* (results is null until a result or an error object is stored)
GetReport(analysisId) ==
  LET found == StoredAnalysis(analysisId)
      stored == found.analysis
  IN IF ~found.found THEN 404
     ELSE IF \/ (stored.overallScore = Undef /\ ~stored.error /\ stored.results = <<>>)
             \/ ~Truthy(stored.overallScore)
     THEN 400
     ELSE 200

\* the poll timer of connection c fires and storage.getAnalysis is awaited
PollFires(c) ==
  /\ c \in 1..Len(conns)
  /\ conns[c].pollInterval
  /\ Len(conns[c].polls) < MaxInFlight
  /\ conns' = [conns EXCEPT ![c].polls = Append(@, StoredAnalysis(conns[c].id))]
  /\ UNCHANGED <<activeStreams, otherPublished, connsLeft>>
  /\ RelayFrame

\* storage.getAnalysis answers a poll of connection c: nothing when there is
\* no record, else an 'update', and 'complete' with res.end() once the overall
\* score is stored
PollReturns(c) ==
  /\ c \in 1..Len(conns)
  /\ conns[c].polls # <<>>
  /\ LET found == Head(conns[c].polls)
         polled == [conns EXCEPT ![c].polls = Tail(@)]
         updated == sendEvent(polled, c,
                              SseEvent("update", conns[c].id, found.analysis))
     IN conns' =
          IF ~found.found \/ ~conns[c].isConnected THEN polled
          ELSE IF found.analysis.overallScore = Undef THEN updated
          ELSE [sendEvent(updated, c, SseEvent("complete", conns[c].id, NoData))
                  EXCEPT ![c].pollInterval = FALSE, ![c].ended = TRUE]
  /\ UNCHANGED <<activeStreams, otherPublished, connsLeft>>
  /\ RelayFrame

\* storage.getAnalysis rejects a poll of connection c: 'error' and res.end()
PollThrows(c) ==
  /\ c \in 1..Len(conns)
  /\ conns[c].polls # <<>>
  /\ LET polled == [conns EXCEPT ![c].polls = Tail(@), ![c].pollInterval = FALSE]
     IN conns' =
          IF ~conns[c].isConnected THEN polled
          ELSE [sendEvent(polled, c, SseEvent("error", conns[c].id, NoData))
                  EXCEPT ![c].ended = TRUE]
  /\ UNCHANGED <<activeStreams, otherPublished, connsLeft>>
  /\ RelayFrame

\* the other analysis publishes an event
OtherPublishes ==
  /\ otherPublished < MaxOtherEvents
  /\ otherPublished' = otherPublished + 1
  /\ conns' = sendProgressUpdate(conns, "B",
                                 Event("streaming", 1, <<T("w")>>))
  /\ UNCHANGED <<activeStreams, connsLeft>>
  /\ RelayFrame

\* the analysis is scheduled: a single document in normal mode (the ladder
\* publishes its events the same way)
Scheduled(chunks) ==
  /\ response = <<>>
  /\ via = NoAdapter
  /\ result = NoResult
  /\ request \in [assessmentMode : {"normal"},
                  documentMode : {"single"},
                  document2Text : {FALSE}]
  /\ pc = "scheduled"
  /\ doc = 1
  /\ phase = 1
  /\ fullText = <<>>
  /\ streamingTranscript = <<>>
  /\ phaseResults = <<>>
  /\ docResults = <<>>
  /\ calls = <<>>
  /\ progress = <<>>
  /\ analysis = NewAnalysis
  /\ chunksLeft = chunks
  /\ SegmentsIdle
  /\ activeStreams = [id \in StreamIds |-> NoStream]
  /\ conns = <<>>
  /\ otherPublished = 0
  /\ Submitted

\* the clients may open MaxConns streams, the provider streams MaxRelayChunks
\* chunks at most
InitRelay ==
  /\ Scheduled(MaxRelayChunks)
  /\ connsLeft = MaxConns

\* publish and subscribe: the orchestrator, the other analysis, and the
\* streams opening and closing
NextRelay ==
  \/ Next
  \/ \E analysisId \in Ids : GetStream(analysisId)
  \/ \E c \in 1..MaxConns : Cleanup(c)
  \/ OtherPublishes

SpecRelay == InitRelay /\ [][NextRelay]_vars

\* the clients may open MaxOrderConns streams, the provider streams
\* MaxOrderChunks chunks at most
InitOrder ==
  /\ Scheduled(MaxOrderChunks)
  /\ connsLeft = MaxOrderConns

\* publish and subscribe with fewer streams and more chunks
SpecOrder == InitOrder /\ [][NextRelay]_vars

\* the clients may open MaxPollConns streams, the provider streams
\* MaxPollChunks chunks at most
InitPoll ==
  /\ Scheduled(MaxPollChunks)
  /\ connsLeft = MaxPollConns

\* the life of a stream: the orchestrator, the streams opening and closing,
\* and their poll timers
NextPoll ==
  \/ Next
  \/ \E analysisId \in {AnalysisId, UnknownId} : GetStream(analysisId)
  \/ \E c \in 1..MaxConns : Cleanup(c)
  \/ \E c \in 1..MaxConns : PollFires(c)
  \/ \E c \in 1..MaxConns : PollReturns(c)
  \/ \E c \in 1..MaxConns : PollThrows(c)

SpecPoll == InitPoll /\ [][NextPoll]_vars

\* the timers fire and the storage settles every poll; nothing makes the
\* provider's call settle
PollFairness ==
  /\ WF_vars(ProcessAnalysisAsync)
  /\ \A c \in 1..MaxConns :
       /\ WF_vars(PollFires(c))
       /\ WF_vars(PollReturns(c) \/ PollThrows(c))

SpecPollLive == SpecPoll /\ PollFairness

\* the heartbeats one connection is followed through
MaxHeartbeats == 1

\* the heartbeat timer of connection c fires; it is cleared wherever the poll
\* timer is
Heartbeat(c) ==
  /\ c \in 1..Len(conns)
  /\ conns[c].pollInterval
  /\ Cardinality({i \in 1..Len(conns[c].written) :
                     conns[c].written[i].type = "heartbeat"}) < MaxHeartbeats
  /\ conns' = sendEvent(conns, c, SseEvent("heartbeat", conns[c].id, NoData))
  /\ UNCHANGED <<activeStreams, otherPublished, connsLeft>>
  /\ RelayFrame

\* the timers of the one stream of an analysis whose provider streams no chunk
InitTimers ==
  /\ Scheduled(0)
  /\ connsLeft = 1

NextTimers ==
  \/ ProcessAnalysisAsync
  \/ AnalyzeTextStreamReturns
  \/ AnalyzeTextStreamThrows
  \/ GetStream(AnalysisId)
  \/ \E c \in 1..MaxConns : Cleanup(c)
  \/ \E c \in 1..MaxConns : PollFires(c)
  \/ \E c \in 1..MaxConns : PollReturns(c)
  \/ \E c \in 1..MaxConns : PollThrows(c)
  \/ \E c \in 1..MaxConns : Heartbeat(c)

SpecTimers == InitTimers /\ [][NextTimers]_vars

(***************************************************************************)
(* What a response declares, read off the text independently of the        *)
(* extractors.                                                             *)
(***************************************************************************)
\* the indices where a line "OVERALL SCORE: m" starts
OverallLines(s) ==
  {i \in 1..(Len(s) - 5) : IsNum(s[i + 5]) /\ SubSeq(s, i, i + 5) = OverallLine(s[i + 5].n)}
\* the indices where a line "Score: n" starts that is not part of "OVERALL SCORE: n"
BareScoreLines(s) ==
  {i \in 1..(Len(s) - 3) :
     /\ IsNum(s[i + 3]) /\ SubSeq(s, i, i + 3) = ScoreLine(s[i + 3].n)
     /\ ~(i > 2 /\ IsOverallWord(s[i - 2]))}
\* the text holds no digit run, or never the word score: it declares no score
NoScoreDeclared(s) ==
  \/ \A i \in 1..Len(s) : ~IsNum(s[i])
  \/ \A i \in 1..Len(s) : ~IsScoreWord(s[i])

Clamp(n) == IF n < 0 THEN 0 ELSE IF n > 100 THEN 100 ELSE n
DeclaredValues == {0 - 5, 0, 42, 65, 80, 91, 150}

\* an adapter has turned the response into its result
Extracted == via # NoAdapter
\* the adapters built on extractScore and on deriveScoreFromAnswer
ByExtractScore == via.client = "protocol"
ByDeriveScore == via.client \in {"questionStream", "question"}

\* C1: the score an adapter of the protocol client returns lies in [0,100],
\* whatever the response text.
C1_ScoreWithinRange ==
  (ByExtractScore /\ ~result.threw) =>
     (result.score.t = "num" /\ result.score.n >= 0 /\ result.score.n <= 100)

\* C2: a response that is exactly one score declaration of value N ("Score: N",
\* "OVERALL SCORE: N" or {"score": N, ...}) yields N clamped to [0,100].
C2_ScoreClamped ==
  \A n \in DeclaredValues :
    ( /\ ByExtractScore \/ ByDeriveScore
      /\ ~result.threw
      /\ response \in {ScoreLine(n), OverallLine(n), JsonObject("score", n)} )
    => result.score = NumV(Clamp(n))

\* C3: the response {"score": N, "explanation": E} with 0 <= N <= 100 yields
\* exactly the score N and the explanation E.
C3_JsonExact ==
  \A n \in {0, 42} :
    (ByDeriveScore /\ ~result.threw /\ response = JsonObject("score", n))
    => (result.score = NumV(n) /\ result.explanation = StrV(<<T("w")>>))

\* C4: a JSON object with a numeric score wrapped in prose yields that score,
\* not the fallback.
C4_EmbeddedJson ==
  \A pre \in {<<T("w")>>, <<T("w"), T("ws")>>}, post \in {<<>>, <<T("w")>>} :
    ( /\ ByExtractScore \/ ByDeriveScore
      /\ ~result.threw
      /\ response = pre \o JsonObject("score", 42) \o post )
    => result.score = NumV(42)

\* C5: when the response holds per-question "Score: n" lines and one
\* "OVERALL SCORE: m" line, in any order, extractScore returns m.
C5_OverallPriority ==
  ( /\ ByExtractScore
    /\ Cardinality(OverallLines(response)) = 1
    /\ BareScoreLines(response) # {} )
  => result.score = NumV(response[Min(OverallLines(response)) + 5].n)

C5_Witness ==
  /\ ByExtractScore
  /\ response = OverallLine(91) \o ScoreLine(80)
  /\ result.score = NumV(91)

\* C6: the value after the last occurrence of the label in use is returned:
\* the last "OVERALL SCORE:" when there is one, else the last "Score:".
C6_LastOccurrence ==
  ( /\ ByExtractScore \/ ByDeriveScore
    /\ ~result.threw
    /\ \A i \in 1..Len(response) : response[i].k \notin {"{", "["}
    /\ \A i \in 1..Len(response) : response[i].n <= 100 )
  => /\ OverallLines(response) # {}
        => result.score = NumV(response[Max(OverallLines(response)) + 5].n)
     /\ (OverallLines(response) = {} /\ BareScoreLines(response) # {})
        => result.score = NumV(response[Max(BareScoreLines(response)) + 3].n)

\* C7: a response that declares no score yields the sentinel 70 together with
\* a diagnostic.
C7_FallbackWithDiagnostic ==
  ( /\ ByExtractScore \/ ByDeriveScore
    /\ ~result.threw
    /\ NoScoreDeclared(response) )
  => (result.score = NumV(70) /\ result.diag)

C7_Witness ==
  /\ ByExtractScore
  /\ response = <<T("w"), T("ws"), T("w")>>
  /\ result.score = NumV(70)
  /\ result.diag

\* C8: every adapter path that gets a response declaring no score returns the
\* same sentinel.
C8_OneSentinel ==
  (Extracted /\ ~result.threw /\ NoScoreDeclared(response))
  => result.score = NumV(DeriveFallback)

\* C9: turning a response into {score, explanation} never throws.
C9_NeverThrows == Extracted => ~result.threw

\* the calls issued for document d, as indices into calls
CallsOf(d) == {i \in 1..Len(calls) : calls[i].doc = d}

\* C10: for every document processed, exactly one call with phase 1 is issued,
\* and it comes before every other call for that document.
C10_Phase1ExactlyOnce ==
  /\ \A d \in {1, 2} :
       CallsOf(d) # {} =>
         /\ calls[Min(CallsOf(d))].phase = 1
         /\ Cardinality({i \in CallsOf(d) : calls[i].phase = 1}) = 1
  /\ \A d \in 1..Len(docResults) : CallsOf(d) # {}
  /\ pc \in {"streaming", "completed", "failed"} => CallsOf(1) # {}

C10_Witness ==
  /\ pc = "completed"
  /\ request.assessmentMode = "comprehensive"
  /\ Len(docResults) = 2
  /\ Cardinality(CallsOf(1)) = 4
  /\ Cardinality(CallsOf(2)) = 4

(***************************************************************************)
(* The phase ladder.                                                       *)
(***************************************************************************)
\* the calls of document d that have returned
ReturnedOf(d) == {i \in CallsOf(d) : i <= Len(phaseResults)}
\* the calls of phases 2 to 4 issued for document d
LadderCalls(d) == {i \in CallsOf(d) : calls[i].phase > 1}
\* processDocumentWithProtocol has returned for document d
Done(d) == d <= Len(docResults)

\* C11: once phase 1 of a document has returned, the document is done with no
\* call of phases 2 to 4 exactly when the mode is normal or the phase-1 score
\* is at least 95.
C11_Phase1ToDone ==
  \A d \in {1, 2} :
    ReturnedOf(d) # {} =>
      ( (Done(d) /\ LadderCalls(d) = {})
        <=> ( \/ request.assessmentMode = "normal"
              \/ phaseResults[Min(CallsOf(d))].score.n >= 95 ) )

C11_Witness ==
  /\ pc = "completed"
  /\ request.assessmentMode = "comprehensive"
  /\ Len(calls) = 1
  /\ phaseResults[1].score = NumV(95)
  /\ Done(1)

\* C12: in comprehensive mode a phase-1 score below 95 is followed by the call
\* of phase 2 for the same document, with the phase-1 score as previous score.
C12_Phase1ToPushback ==
  \A i \in 1..Len(phaseResults) :
    ( /\ calls[i].phase = 1
      /\ request.assessmentMode = "comprehensive"
      /\ phaseResults[i].score.n < 95 )
    => /\ Len(calls) > i
       /\ calls[i + 1] = [doc |-> calls[i].doc, phase |-> 2,
                          previousScore |-> phaseResults[i].score]

C12_Witness ==
  /\ request.assessmentMode = "comprehensive"
  /\ Len(calls) >= 2
  /\ phaseResults[1].score = NumV(94)
  /\ calls[2] = [doc |-> 1, phase |-> 2, previousScore |-> NumV(94)]

\* C13: at most one call is outstanding and it is issued after the call before
\* it returned; a returned phase 2 is followed by phase 3 and a returned phase
\* 3 by phase 4 whatever their scores; the phases of a document are called in
\* increasing order, each at most once, and a finished ladder called 1,2,3,4.
C13_LadderInOrder ==
  /\ Len(calls) - Len(phaseResults) \in {0, 1}
  /\ \A i \in 1..Len(phaseResults) :
       calls[i].phase \in {2, 3} =>
         /\ Len(calls) > i
         /\ calls[i + 1].doc = calls[i].doc
         /\ calls[i + 1].phase = calls[i].phase + 1
  /\ \A d \in {1, 2} :
       /\ \A i, j \in CallsOf(d) : i < j => calls[i].phase < calls[j].phase
       /\ (Done(d) /\ LadderCalls(d) # {})
            => {calls[i].phase : i \in CallsOf(d)} = {1, 2, 3, 4}

C13_Witness ==
  /\ pc = "completed"
  /\ Len(calls) = 4
  /\ phaseResults[2].score = NumV(95)
  /\ calls[3].phase = 3
  /\ calls[4].phase = 4

RECURSIVE JoinPhases(_, _)
JoinPhases(texts, n) ==
  IF n = 0 THEN <<>>
  ELSE JoinPhases(texts, n - 1) \o PhaseMarker(n) \o texts[n]

\* the raw text of each phase of the document being processed, the text
\* streamed so far for the phase awaited
PhaseTexts ==
  LET first == Min(CallsOf(doc))
  IN [k \in 1..(Len(calls) - first + 1) |->
        IF first + k - 1 <= Len(phaseResults)
        THEN phaseResults[first + k - 1].explanation.s
        ELSE fullText]

\* C15: when every phase has streamed some text, the transcript is the phase-1
\* text followed, for each later phase, by one marker and the phase's text.
C15_TranscriptOneMarkerPerPhase ==
  ( /\ pc \in {"streaming", "completed"}
    /\ \A k \in DOMAIN PhaseTexts : PhaseTexts[k] # <<>> )
  => streamingTranscript = JoinPhases(PhaseTexts, Len(PhaseTexts))

\* C16: after a failed call no further call is issued, and the analysis is
\* stored with overall score 0 and the error.
C16_FailureAborts ==
  pc = "failed" =>
    /\ Len(calls) = Len(phaseResults) + 1
    /\ analysis.overallScore = NumV(0)
    /\ analysis.error

C16_Witness ==
  /\ pc = "failed"
  /\ phase = 3
  /\ phaseResults[1].score = NumV(94)
  /\ analysis.overallScore = NumV(0)
  /\ analysis.error

\* C17: after a failure in a phase after the first, the stored analysis holds
\* the score and the raw text of every phase that returned before it.
C17_CompletedPhasesPreserved ==
  (pc = "failed" /\ phase > 1) =>
    \A i \in ReturnedOf(doc) :
      \E j \in DOMAIN analysis.results :
        /\ analysis.results[j].score = phaseResults[i].score
        /\ analysis.results[j].explanation = phaseResults[i].explanation

(***************************************************************************)
(* Segment aggregation.                                                    *)
(***************************************************************************)
\* the entry the catch block pushed for a segment whose call failed
IsErrorEntry(r) == r.explanation = StrV(ErrorText)
\* the segments whose call returned
Succeeded(rs) == SelectSeq(rs, LAMBDA r : ~IsErrorEntry(r))
\* text t occurs in text s
Contains(s, t) ==
  \E i \in 0..(Len(s) - Len(t)) : SubSeq(s, i + 1, i + Len(t)) = t

\* C18: the score of a question is the rounded mean of the scores of the
\* segments whose call returned, a score of 0 included, and 0 when none did.
C18_MeanOfSucceeded ==
  questionResult # NoQuestionResult =>
    questionResult.score =
      NumV(IF Succeeded(chunkResults) = <<>> THEN 0
           ELSE RoundDiv(SumScores(Succeeded(chunkResults)),
                         Len(Succeeded(chunkResults))))

\* C19: the error text of every failed segment occurs in the combined
\* explanation of the question.
C19_ErrorTextPreserved ==
  questionResult # NoQuestionResult =>
    \A i \in 1..Len(chunkResults) :
      IsErrorEntry(chunkResults[i]) =>
        Contains(questionResult.explanation.s, chunkResults[i].explanation.s)

(***************************************************************************)
(* The live-progress streams.                                              *)
(***************************************************************************)
\* the events the step publishes for the analysis
Published == SubSeq(progress', Len(progress) + 1, Len(progress'))
\* the events the step publishes for analysis id, as they are sent
PublishedFor(id) ==
  IF id = AnalysisId
  THEN [i \in 1..Len(Published) |-> SseEvent("progress", id, Published[i])]
  ELSE IF otherPublished' # otherPublished
  THEN <<SseEvent("progress", id, Event("streaming", 1, <<T("w")>>))>>
  ELSE <<>>
\* what connection c has been sent, before and after the step
WrittenBefore(c) == IF c <= Len(conns) THEN conns[c].written ELSE <<>>
ProgressEvents(events) ==
  [i \in 1..Len(events) |-> SseEvent("progress", AnalysisId, events[i])]

\* C20: events published while no stream is registered for their analysis
\* change neither the connections nor the registrations, and a connection is
\* only ever sent its 'connected' event when it opens and, while it is the
\* one registered, the events published in that very step: nothing published
\* earlier is sent later.
C20_PublishBestEffort ==
  [][ /\ \A id \in Ids :
           (PublishedFor(id) # <<>> /\ activeStreams[id] = NoStream)
             => UNCHANGED <<conns, activeStreams>>
      /\ \A c \in 1..Len(conns') :
           \/ conns'[c].written = WrittenBefore(c)
           \/ /\ c > Len(conns)
              /\ conns'[c].written = <<SseEvent("connected", conns'[c].id, NoData)>>
           \/ /\ c <= Len(conns)
              /\ activeStreams[conns[c].id] = c
              /\ conns'[c].written
                   = WrittenBefore(c) \o PublishedFor(conns[c].id)
    ]_vars

\* a stream registered after the first events were published has been sent
\* the chunk streamed since and none of the earlier events
C20_Witness ==
  /\ Len(progress) = 4
  /\ progress[4].status = "streaming"
  /\ \E c \in 1..Len(conns) :
       /\ conns[c].id = AnalysisId
       /\ conns[c].written = <<SseEvent("connected", AnalysisId, NoData),
                               SseEvent("progress", AnalysisId, progress[4])>>

\* C21: while two connections for the same analysis are both open, every
\* event published for the analysis is sent to both.
C21_AllSubscribersReceive ==
  [][ \A c1, c2 \in 1..Len(conns) :
        ( /\ c1 # c2
          /\ conns[c1].id = conns[c2].id
          /\ conns[c1].isConnected /\ conns[c2].isConnected )
        => conns'[c1].written
             = conns[c1].written \o PublishedFor(conns[c1].id)
    ]_vars

\* C22: a cleanup of a connection whose cleanup has already run changes
\* nothing, and nothing is sent to a connection after its first cleanup.
C22_CleanupIdempotent ==
  [][ \A c \in 1..Len(conns) :
        ~conns[c].isConnected =>
          /\ conns'[c].written = conns[c].written
          /\ Cleanup(c) => UNCHANGED <<conns, activeStreams>>
    ]_vars

\* C23: a connection is only ever sent events of the analysis it was opened
\* for.
C23_Isolation ==
  \A c \in 1..Len(conns) :
    \A i \in 1..Len(conns[c].written) :
      conns[c].written[i].analysisId = conns[c].id

\* a stream of each analysis has been sent an event published for it
C23_Witness ==
  /\ otherPublished > 0
  /\ \E c1, c2 \in 1..Len(conns) :
       /\ conns[c1].id = "A" /\ conns[c2].id = "B"
       /\ \E i \in 1..Len(conns[c1].written) :
            conns[c1].written[i].type = "progress"
       /\ \E i \in 1..Len(conns[c2].written) :
            conns[c2].written[i].type = "progress"

\* the 'progress' events among what a connection has been sent
ProgressOf(written) == SelectSeq(written, LAMBDA e : e.type = "progress")
\* the chunks of the 'streaming' events among events, concatenated
RECURSIVE ChunksOf(_)
ChunksOf(events) ==
  IF events = <<>> THEN <<>>
  ELSE (IF Head(events).status = "streaming" THEN Head(events).chunk ELSE <<>>)
         \o ChunksOf(Tail(events))

\* C24: what a connection for the analysis has been sent is a run of the
\* published events in the order of their publication, and the text the call
\* has accumulated is the concatenation of the chunks in that order.
C24_ChunksInOrder ==
  /\ \A c \in 1..Len(conns) :
       conns[c].id = AnalysisId =>
         \E a \in 1..(Len(progress) + 1), b \in 0..Len(progress) :
           ProgressOf(conns[c].written)
             = SubSeq(ProgressEvents(progress), a, b)
  /\ pc \in {"streaming", "completed"} => fullText = ChunksOf(progress)

\* a stream has been sent two different chunks in the order they were streamed
C24_Witness ==
  /\ Len(progress) = 5
  /\ progress[4].status = "streaming" /\ progress[5].status = "streaming"
  /\ progress[4].chunk # progress[5].chunk
  /\ fullText = progress[4].chunk \o progress[5].chunk
  /\ \E c \in 1..Len(conns) :
       ProgressOf(conns[c].written)
         = SubSeq(ProgressEvents(progress), 4, 5)

\* C25: the orchestrator's state changes only by its own steps, its start
\* and the provider's chunks are taken whatever the streams do, and the
\* result it stores is the one extracted from the text the provider streamed.
C25_SubscribersDoNotCancel ==
  [][ /\ ovars' # ovars => Next
      /\ pc = "scheduled" => ENABLED ProcessAnalysisAsync
      /\ (pc = "streaming" /\ chunksLeft > 0) => ENABLED OnStream
      /\ pc' = "failed" => analysis'.error
      /\ pc' = "completed" =>
           /\ analysis'.overallScore
                = NumV(extractScore(ChunksOf(progress')).score)
           /\ analysis'.results[1].score = analysis'.overallScore
    ]_vars

\* the only stream was closed before anything was published, and the result
\* is stored
C25_Witness ==
  /\ pc = "completed"
  /\ analysis.overallScore = NumV(94)
  /\ Len(conns) = 1
  /\ conns[1].id = AnalysisId
  /\ ~conns[1].isConnected
  /\ conns[1].written = <<SseEvent("connected", AnalysisId, NoData)>>

\* connection c has been sent 'complete' or 'error'
Terminated(c) ==
  \E i \in 1..Len(conns[c].written) :
    conns[c].written[i].type \in {"complete", "error"}

\* C26: every stream that stays open is eventually sent 'complete' or
\* 'error'.
C26_StreamTerminates ==
  \A c \in 1..MaxConns :
    [](c <= Len(conns)
         => <>(c <= Len(conns) /\ (~conns[c].isConnected \/ Terminated(c))))

Malformed(b) ==
  \/ Len(b.document1Text) = 0
  \/ b.llmProvider \notin {"zhi1", "zhi2", "zhi3", "zhi4"}
  \/ b.assessmentType \notin {"cognitive", "psychological", "psychopathological"}
  \/ b.assessmentMode \notin {"normal", "comprehensive"}

\* C28: the handler answers a malformed body with status 400 and no analysis
\* id, creates no record and schedules nothing, in the step that takes the
\* body; and after a 400 no record exists and nothing ever runs.
C28_MalformedRejected ==
  [][ /\ (body # NoBody /\ Malformed(body) /\ body' = NoBody) =>
           /\ reply'.status = 400
           /\ reply'.analysisId = ""
           /\ records' = records
           /\ pc' = "idle"
           /\ analysis' = analysis
      /\ reply.status = 400 =>
           /\ reply' = reply
           /\ records' = 0
           /\ pc' = "idle"
           /\ calls' = <<>>
    ]_vars

\* a body whose only fault is its empty text was answered 400
C28_Witness ==
  /\ reply = Rejected({"document1Text"})
  /\ records = 0
  /\ pc = "idle"

\* C29: without the provider's key the submission is not accepted and no
\* score is ever stored for the analysis.
C29_MissingKeyRejected ==
  ~apiKey =>
    /\ reply.status # 200
    /\ analysis.overallScore = Undef

\* the vendor's invalid-model error
InvalidModel(r) == r.status = 400 /\ r.type = "invalid_model"

\* C30: a call sends two requests at most, a second one exactly when the
\* first was answered with the invalid-model error, and it throws when the
\* retry is not answered OK.
C30_OneRetryOnInvalidModel ==
  /\ Len(fetches) <= 2
  /\ Len(fetches) = 2 => InvalidModel(received[1])
  /\ (received # <<>> /\ InvalidModel(received[1])) => Len(fetches) = 2
  /\ (Len(received) = 2 /\ ~Ok(received[2])) => result = Thrown

\* C32: the prompt of every call of phase 2, 3 or 4 embeds the score the
\* phase before returned, and no other.
C32_PromptEmbedsPreviousScore ==
  \A i \in 1..Len(calls) :
    calls[i].phase >= 2 =>
      buildProtocolPrompt(calls[i].phase, calls[i].previousScore)
        = <<phaseResults[i - 1].score>>

\* C33: the report of the analysis is served exactly when an overall score
\* is stored, whatever the score.
C33_ReportOnceScored ==
  GetReport(AnalysisId) = 200 <=> analysis.overallScore # Undef

\* C34: the stored overall score is null while the orchestration runs, is
\* written in the step that ends it, and the record never changes after
\* that; the status read returns the record, and not-found for an unknown id.
C34_ScoreWrittenOnce ==
  [][ /\ pc' \in {"scheduled", "streaming"} => analysis'.overallScore = Undef
      /\ pc' \in {"completed", "failed"} => analysis'.overallScore # Undef
      /\ analysis.overallScore # Undef => analysis' = analysis
      /\ (pc' = "completed") = (analysis'.overallScore # Undef /\ ~analysis'.error)
      /\ GetAnalysis(AnalysisId)' = [status |-> 200, analysis |-> analysis']
      /\ GetAnalysis(UnknownId)'.status = 404
    ]_vars

\* the second document failed after the first returned, and the status read
\* returns the record of the failure
C34_Witness ==
  /\ pc = "failed"
  /\ Len(docResults) = 1
  /\ GetAnalysis(AnalysisId).analysis.overallScore = NumV(0)
  /\ GetAnalysis(AnalysisId).analysis.error

\* C35: when the cleanup of an open connection runs while a newer connection
\* for the same analysis is the one registered, the newer connection stays
\* registered.
C35_ReconnectStaysRegistered ==
  [][ \A c1, c2 \in 1..Len(conns) :
        ( /\ c1 < c2
          /\ conns[c1].id = conns[c2].id
          /\ conns[c1].isConnected /\ conns[c2].isConnected
          /\ activeStreams[conns[c2].id] = c2
          /\ Cleanup(c1) )
        => activeStreams'[conns[c2].id] = c2
    ]_vars

\* the places of the 'complete' events among what a connection was sent
Completes(written) == {i \in 1..Len(written) : written[i].type = "complete"}

MaxOpens == 1

maxReconnectAttempts == 5

\* connectToStream: a new EventSource, its handlers closing over the state of
\* this render
connectToStream(h) ==
  [h EXCEPT !.eventSource = "connecting", !.attempts = h.reconnectAttempts,
            !.opened = @ + 1]

\* the re-render after a handler took the state from h0 to h: the connection
\* effect and the fallback effect, each run when one of its dependencies
\* changed, its cleanup first
Render(h0, h) ==
  LET connected ==
        IF h.isComplete = h0.isComplete
           /\ h.reconnectAttempts = h0.reconnectAttempts
        THEN h
        ELSE LET cleaned ==
                   [h EXCEPT !.eventSource =
                               IF @ \in {"connecting", "open"} THEN "closed"
                               ELSE @,
                             !.reconnectTimeout = FALSE]
             IN IF cleaned.isComplete THEN cleaned
                ELSE IF cleaned.reconnectAttempts > 0
                THEN [cleaned EXCEPT !.reconnectTimeout = TRUE]
                ELSE connectToStream(cleaned)
  IN IF /\ h.isComplete = h0.isComplete
        /\ h.reconnectAttempts = h0.reconnectAttempts
        /\ h.error = h0.error
     THEN connected
     ELSE \* clearTimeout(pollTimeout) stops a chain that waits; one that is
          \* fetching goes on and sets a timeout no cleanup will clear
          LET cleaned ==
                [connected EXCEPT
                   !.polling = "none",
                   !.strayFetching =
                      IF connected.polling = "fetching" THEN @ + 1 ELSE @]
          IN IF /\ ~cleaned.isComplete
                /\ cleaned.error # ""
                /\ cleaned.reconnectAttempts >= maxReconnectAttempts
             THEN \* setError('Connection lost - checking ...') changes a
                  \* dependency of this effect, which then runs once more
                  [cleaned EXCEPT
                     !.error = "checking",
                     !.polling = "fetching",
                     !.strayFetching =
                        IF cleaned.error = "checking" THEN @ ELSE @ + 1]
             ELSE cleaned

HookFrame ==
  UNCHANGED <<evars, ovars, svars, rvars, body, reply, records, apiKey,
              fetches, received, thrown>>

\* the first render of useAnalysisStream(analysisId): the connection effect
\* connects at once
Mount ==
  /\ ~hook.mounted
  /\ hook' = connectToStream([hook EXCEPT !.mounted = TRUE])
  /\ HookFrame

\* eventSource.onopen, and the 'connected' message that follows it
OnOpen ==
  /\ hook.eventSource = "connecting"
  /\ hook.opens < MaxOpens
  /\ hook' = Render(hook, [hook EXCEPT !.eventSource = "open",
                                       !.error = "",
                                       !.reconnectAttempts = 0,
                                       !.failed = 0,
                                       !.opens = @ + 1])
  /\ HookFrame

\* eventSource.onerror
OnError ==
  /\ hook.eventSource \in {"connecting", "open"}
  /\ hook' = Render(hook,
                    IF hook.attempts < maxReconnectAttempts
                    THEN [hook EXCEPT !.eventSource = "closed",
                                      !.failed = @ + 1,
                                      !.error = "reconnecting",
                                      !.reconnectAttempts = hook.attempts + 1]
                    ELSE [hook EXCEPT !.eventSource = "closed",
                                      !.failed = @ + 1,
                                      !.error = "connection"])
  /\ HookFrame

\* eventSource.onmessage for 'complete', which the stream sends once the
\* overallScore is stored
OnMessage ==
  /\ hook.eventSource = "open"
  /\ analysis.overallScore # Undef
  /\ hook' = Render(hook, [hook EXCEPT !.isComplete = TRUE])
  /\ HookFrame

\* the reconnectTimeout of the connection effect fires
ReconnectTimeout ==
  /\ hook.reconnectTimeout
  /\ hook' = connectToStream([hook EXCEPT !.reconnectTimeout = FALSE])
  /\ HookFrame

\* the fetch of a pollForCompletion settles, the one of the chain of the
\* last run of the fallback effect (stray FALSE) or of an earlier run
PollForCompletion(stray) ==
  /\ IF stray THEN hook.strayFetching > 0 ELSE hook.polling = "fetching"
  /\ \E ok \in BOOLEAN :
       LET found == GetAnalysis(AnalysisId)
           stopped == IF stray THEN [hook EXCEPT !.strayFetching = @ - 1]
                      ELSE [hook EXCEPT !.polling = "none"]
       IN IF ok /\ found.status = 200 /\ found.analysis.overallScore # Undef
          THEN hook' = Render(hook, [stopped EXCEPT !.isComplete = TRUE,
                                                    !.error = ""])
          ELSE hook' = IF stray
                       THEN [stopped EXCEPT !.strayWaiting = @ + 1]
                       ELSE [hook EXCEPT !.polling = "waiting"]
  /\ HookFrame

\* the pollTimeout of a chain fires: pollForCompletion fetches again
PollTimeout(stray) ==
  /\ IF stray THEN hook.strayWaiting > 0 ELSE hook.polling = "waiting"
  /\ hook' = IF stray
             THEN [hook EXCEPT !.strayWaiting = @ - 1, !.strayFetching = @ + 1]
             ELSE [hook EXCEPT !.polling = "fetching"]
  /\ HookFrame

\* an analysis whose provider streams no chunk, and the page that follows it
InitHook ==
  /\ Scheduled(0)
  /\ connsLeft = 0

NextHook ==
  \/ ProcessAnalysisAsync
  \/ AnalyzeTextStreamReturns
  \/ AnalyzeTextStreamThrows
  \/ Mount
  \/ OnOpen
  \/ OnError
  \/ OnMessage
  \/ ReconnectTimeout
  \/ \E stray \in BOOLEAN : PollForCompletion(stray)
  \/ \E stray \in BOOLEAN : PollTimeout(stray)

SpecHook == InitHook /\ [][NextHook]_vars

\* the exchange ended on an answer that was not OK
TransportFailed ==
  /\ Len(received) = Len(fetches)
  /\ received # <<>>
  /\ ~Ok(received[Len(received)])

\* C31: a call whose last answer was not OK has thrown an Error that carries
\* the status of that answer, as text or as number, and has returned no
\* response object, hence no score.
C31_TransportFailureThrows ==
  TransportFailed =>
    /\ result = Thrown
    /\ result.score = Undef
    /\ received[Len(received)].status \in {thrown.statusText, thrown.status}

\* callDeepSeek was answered with a server error
C31_Witness ==
  /\ TransportFailed
  /\ via = [client |-> "question", provider |-> "deepseek"]
  /\ received[1].status = 500
  /\ result.threw

\* the fetches of pollForCompletion in flight
Fetching(h) == h.strayFetching + (IF h.polling = "fetching" THEN 1 ELSE 0)
\* the chains of pollForCompletion that fetch or wait for their timeout
Chains(h) ==
  Fetching(h) + h.strayWaiting + (IF h.polling = "waiting" THEN 1 ELSE 0)

\* reconnectAttempts stays within 5 and a connection that opens resets it
CounterBounded ==
  /\ hook'.reconnectAttempts <= maxReconnectAttempts
  /\ OnOpen => hook'.reconnectAttempts = 0
\* after the given number of failures in a row no EventSource is created
NoConnectionAfter(failures) ==
  hook.failed >= failures => hook'.opened = hook.opened
\* after five failures in a row the hook polls while it is not complete, and a
\* chain of polls ends by its own answer only with isComplete set
PollsUntilComplete ==
  /\ (hook'.failed >= maxReconnectAttempts /\ ~hook'.isComplete)
       => Chains(hook') > 0
  /\ \A stray \in BOOLEAN :
       (PollForCompletion(stray) /\ Chains(hook') < Chains(hook))
         => hook'.isComplete
\* once isComplete is set no fetch is sent
StopsPolling == hook.isComplete => Fetching(hook') <= Fetching(hook)

\* C38: reconnectAttempts never exceeds 5 and is reset by every connection
\* that opens; once five attempts have failed the hook creates no further
\* EventSource and polls the status until an answer carries an overallScore,
\* which sets isComplete, and it sends no poll after that.
C38_ReconnectBounded ==
  [][ /\ CounterBounded
      /\ NoConnectionAfter(maxReconnectAttempts)
      /\ PollsUntilComplete
      /\ StopsPolling ]_vars

====
